---- MODULE Spec2Model ----
(***************************************************************************)
(* A model of the constraint algebra of package semver (constraint.go):    *)
(* the five constraint variants, Admits, Intersect, the n-ary Intersection *)
(* and Union, and the predicates IsNone and IsAny.  Every operation is a   *)
(* pure function, modelled as an operator; the specifications draw the     *)
(* operands from bounded sets and apply one operation to them.             *)
(***************************************************************************)
EXTENDS Integers, Sequences, FiniteSets

VARIABLES a, b, cg, v, op, res

vars == <<a, b, cg, v, op, res>>

-----------------------------------------------------------------------------
(* Bounds of the model. *)

\* versions are 1..MaxVer, ordered as the integers are
MaxVer == 3

\* longest exclusion list of a range operand
MaxExcl == 1

\* most members of a union operand
MaxMembers == 2

\* most arguments handed to Intersection
MaxArgs == 3

-----------------------------------------------------------------------------
(* Versions.  *Version is a pointer: Nil is the absent bound. *)

Nil == 0

Versions == 1..MaxVer

\* Version.Compare: three-way comparison, -1 / 0 / 1
Compare(x, y) ==
    IF x < y THEN -1 ELSE IF x > y THEN 1 ELSE 0

Equal(x, y) ==
    Compare(x, y) = 0

LessThan(x, y) ==
    Compare(x, y) < 0

GreaterThan(x, y) ==
    Compare(x, y) > 0

-----------------------------------------------------------------------------
(* Constraint values. *)

Any == [k |-> "any"]

None == [k |-> "none"]

\* a *Version used as a Constraint
Exact(x) == [k |-> "version", v |-> x]

rangeConstraint(min, max, includeMin, includeMax, excl) ==
    [k |-> "range", min |-> min, max |-> max,
     includeMin |-> includeMin, includeMax |-> includeMax, excl |-> excl]

unionConstraint(cs) == [k |-> "union", cs |-> cs]

\* a call that does not return: panic(msg), or a nil pointer dereference
Panic(msg) == [k |-> "panic", msg |-> msg]

\* error values: nil, noneErr, and the fmt.Errorf results
NoErr == [err |-> "nil"]

noneErr == [err |-> "The 'None' constraint admits no versions."]

Errorf(msg, x, y) == [err |-> msg, v |-> x, ver |-> y]

-----------------------------------------------------------------------------
(* Admits *)

RECURSIVE Admits(_, _)

any_Admits(x) == NoErr

none_Admits(x) == noneErr

\* Version.Admits: a version admits exactly itself
Version_Admits(c, x) ==
    IF Equal(c.v, x) THEN NoErr ELSE Errorf("%s is not equal to %s", x, c.v)

RECURSIVE exclLoop(_, _, _)
exclLoop(excl, i, x) ==
    IF i > Len(excl) THEN NoErr
    ELSE IF Equal(excl[i], x)
         THEN Errorf("Version %s is specifically disallowed.", x, x)
         ELSE exclLoop(excl, i + 1, x)

\* rangeConstraint.Admits with the exclusive lower bound tested as the
\* inclusive one is (cmp == 1 in place of cmp != -1)
rangeConstraint_Admits_laxMin(rc, x) ==
    LET cmpMin == Compare(rc.min, x)
        failMin == cmpMin = 1
        emsgMin == IF rc.includeMin THEN "%s is less than %s"
                   ELSE "%s is less than or equal to %s"
        cmpMax == Compare(rc.max, x)
        failMax == IF rc.includeMax THEN cmpMax = -1 ELSE cmpMax # 1
        emsgMax == IF rc.includeMax THEN "%s is greater than %s"
                   ELSE "%s is greater than or equal to %s"
    IN  IF rc.min # Nil /\ failMin THEN Errorf(emsgMin, x, rc.min)
        ELSE IF rc.max # Nil /\ failMax THEN Errorf(emsgMax, x, rc.max)
        ELSE exclLoop(rc.excl, 1, x)

rangeConstraint_Admits(rc, x) ==
    LET cmpMin == Compare(rc.min, x)
        failMin == IF rc.includeMin THEN cmpMin = 1 ELSE cmpMin # -1
        emsgMin == IF rc.includeMin THEN "%s is less than %s"
                   ELSE "%s is less than or equal to %s"
        cmpMax == Compare(rc.max, x)
        failMax == IF rc.includeMax THEN cmpMax = -1 ELSE cmpMax # 1
        emsgMax == IF rc.includeMax THEN "%s is greater than %s"
                   ELSE "%s is greater than or equal to %s"
    IN  IF rc.min # Nil /\ failMin THEN Errorf(emsgMin, x, rc.min)
        ELSE IF rc.max # Nil /\ failMax THEN Errorf(emsgMax, x, rc.max)
        ELSE exclLoop(rc.excl, 1, x)

RECURSIVE unionAdmitsLoop(_, _, _, _)
unionAdmitsLoop(uc, i, x, err) ==
    IF i > Len(uc) THEN err
    ELSE LET e == Admits(uc[i], x)
         IN  IF e = NoErr THEN NoErr ELSE unionAdmitsLoop(uc, i + 1, x, e)

unionConstraint_Admits(uc, x) ==
    unionAdmitsLoop(uc.cs, 1, x, NoErr)

Admits(c, x) ==
    CASE c.k = "any" -> any_Admits(x)
      [] c.k = "none" -> none_Admits(x)
      [] c.k = "version" -> Version_Admits(c, x)
      [] c.k = "range" -> rangeConstraint_Admits(c, x)
      [] c.k = "union" -> unionConstraint_Admits(c, x)

-----------------------------------------------------------------------------
(* IsNone, IsAny *)

IsNone(c) == c.k = "none"

IsAny(c) == c.k = "none"

-----------------------------------------------------------------------------
(* Union *)

RECURSIVE firstAny(_, _)
firstAny(cs, i) ==
    IF i > Len(cs) THEN Panic("unfinished")
    ELSE IF cs[i].k = "any" THEN cs[i] ELSE firstAny(cs, i + 1)

Union(cs) ==
    IF Len(cs) = 0 THEN None
    ELSE IF Len(cs) = 1 THEN cs[1]
    ELSE firstAny(cs, 1)

-----------------------------------------------------------------------------
(* Intersect *)

RECURSIVE Intersect(_, _)

any_Intersect(c) == c

none_Intersect(c) == None

\* Version.Intersect: the version if the other operand admits it, else None
Version_Intersect(ver, c) ==
    IF Admits(c, ver.v) = NoErr THEN ver ELSE None

dup(rc) ==
    [rc EXCEPT !.excl = IF Len(rc.excl) > 0 THEN rc.excl ELSE <<>>]

\* the lower-bound merge without the branch that follows the least inclusive
\* flag when the two lower bounds are equal
mergeMin_noTie(nr, oc) ==
    IF oc.min # Nil
    THEN IF nr.min = Nil \/ LessThan(nr.min, oc.min)
         THEN [nr EXCEPT !.min = oc.min, !.includeMin = oc.includeMin]
         ELSE nr
    ELSE nr

mergeMin(nr, oc) ==
    IF oc.min # Nil
    THEN IF nr.min = Nil \/ LessThan(nr.min, oc.min)
         THEN [nr EXCEPT !.min = oc.min, !.includeMin = oc.includeMin]
         ELSE IF Equal(oc.min, nr.min) /\ ~oc.includeMin
              THEN [nr EXCEPT !.includeMin = FALSE]
              ELSE nr
    ELSE nr

mergeMax(nr, oc) ==
    IF oc.max # Nil
    THEN IF nr.max = Nil \/ GreaterThan(nr.max, oc.max)
         THEN [nr EXCEPT !.max = oc.max, !.includeMax = oc.includeMax]
         ELSE IF Equal(oc.max, nr.max) /\ ~oc.includeMax
              THEN [nr EXCEPT !.includeMax = FALSE]
              ELSE nr
    ELSE nr

\* the checks on the merged range; nr.min.Equal(nr.max) reads both versions,
\* so it does not return when exactly one of them is nil
validate(nr) ==
    IF nr.min = Nil /\ nr.max = Nil THEN nr
    ELSE IF nr.min = Nil \/ nr.max = Nil
         THEN Panic("nil pointer dereference")
    ELSE IF Equal(nr.min, nr.max)
         THEN IF nr.includeMin /\ nr.includeMax THEN Exact(nr.min) ELSE None
    ELSE IF nr.min # Nil /\ nr.max # Nil /\ GreaterThan(nr.min, nr.max)
         THEN None
    ELSE nr

RECURSIVE unionConstraint_Intersect(_, _)

rangeConstraint_Intersect(rc, c) ==
    CASE c.k = "any" -> rc
      [] c.k = "none" -> None
      [] c.k = "union" -> unionConstraint_Intersect(c, rc)
      [] c.k = "version" -> None
      [] c.k = "range" -> validate(mergeMax(mergeMin(dup(rc), c), c))
      [] OTHER -> Panic("unknown type")

\* the NxN loop: members of uc from index i, members of other from index j
RECURSIVE crossLoop(_, _, _, _, _)
crossLoop(uc, other, i, j, newc) ==
    IF i > Len(uc) THEN Union(newc)
    ELSE IF j > Len(other) THEN crossLoop(uc, other, i + 1, 1, newc)
    ELSE LET r == Intersect(uc[i], other[j])
         IN  IF r.k = "panic" THEN r
             ELSE IF ~IsNone(r)
                  THEN crossLoop(uc, other, i, j + 1, Append(newc, r))
                  ELSE crossLoop(uc, other, i, j + 1, newc)

unionConstraint_Intersect(uc, c2) ==
    CASE c2.k = "none" -> None
      [] c2.k = "any" -> uc
      [] c2.k = "version" -> c2
      [] c2.k = "range" -> crossLoop(uc.cs, <<c2>>, 1, 1, <<>>)
      [] c2.k = "union" -> crossLoop(uc.cs, c2.cs, 1, 1, <<>>)
      [] OTHER -> Panic("unknown type")

Intersect(c, o) ==
    CASE c.k = "any" -> any_Intersect(o)
      [] c.k = "none" -> none_Intersect(o)
      [] c.k = "version" -> Version_Intersect(c, o)
      [] c.k = "range" -> rangeConstraint_Intersect(c, o)
      [] c.k = "union" -> unionConstraint_Intersect(c, o)

-----------------------------------------------------------------------------
(* Intersection *)

RECURSIVE firstSuperseding(_, _)
firstSuperseding(cs, i) ==
    IF i > Len(cs) THEN Nil
    ELSE IF cs[i].k \in {"none", "version"} THEN i
    ELSE firstSuperseding(cs, i + 1)

RECURSIVE foldIntersect(_, _, _)
foldIntersect(head, cs, i) ==
    IF i > Len(cs) \/ head.k = "panic" THEN head
    ELSE foldIntersect(Intersect(head, cs[i]), cs, i + 1)

Intersection(cs) ==
    IF Len(cs) = 0 THEN None
    ELSE IF Len(cs) = 1 THEN cs[1]
    ELSE IF firstSuperseding(cs, 1) # Nil THEN cs[firstSuperseding(cs, 1)]
    ELSE foldIntersect(cs[1], cs, 2)

-----------------------------------------------------------------------------
(* Operands *)

SeqsUpTo(S, n) == UNION {[1..m -> S] : m \in 0..n}

Bounds == {Nil} \cup Versions

Ranges ==
    {rangeConstraint(mn, mx, imn, imx, ex) :
        mn \in Bounds, mx \in Bounds, imn \in BOOLEAN, imx \in BOOLEAN,
        ex \in SeqsUpTo(Versions, MaxExcl)}

\* one list per set of excluded versions: Intersect copies the lists and
\* never reads their order
Increasing(s) == \A i \in 1..Len(s) : \A j \in 1..Len(s) : i < j => s[i] < s[j]

IntersectRanges == {r \in Ranges : Increasing(r.excl)}

Exacts == {Exact(x) : x \in Versions}

\* ranges with both bounds present, lower below upper, and no exclusions
BoundedRanges ==
    {r \in Ranges : r.min # Nil /\ r.max # Nil /\ r.min < r.max /\ r.excl = <<>>}

Members == {Any, None} \cup Exacts \cup BoundedRanges

Unions == {unionConstraint(cs) : cs \in SeqsUpTo(Members, MaxMembers)}

RangeUnions == {unionConstraint(cs) : cs \in SeqsUpTo(BoundedRanges, MaxMembers)}

Constraints == {Any, None} \cup Exacts \cup Ranges \cup Unions

Pending == [k |-> "pending"]

Bool(x) == [k |-> "bool", val |-> x]

-----------------------------------------------------------------------------
(* Actions: one call of one operation on the operands. *)

AdmitsStep ==
    /\ op = "init"
    /\ op' = "Admits"
    /\ res' = Admits(a, v)
    /\ UNCHANGED <<a, b, cg, v>>

IntersectStep ==
    /\ op = "init"
    /\ op' = "Intersect"
    /\ res' = Intersect(a, b)
    /\ UNCHANGED <<a, b, cg, v>>

IntersectionStep ==
    /\ op = "init"
    /\ op' = "Intersection"
    /\ res' = Intersection(cg)
    /\ UNCHANGED <<a, b, cg, v>>

IsNoneStep ==
    /\ op = "init"
    /\ op' = "IsNone"
    /\ res' = Bool(IsNone(a))
    /\ UNCHANGED <<a, b, cg, v>>

IsAnyStep ==
    /\ op = "init"
    /\ op' = "IsAny"
    /\ res' = Bool(IsAny(a))
    /\ UNCHANGED <<a, b, cg, v>>

-----------------------------------------------------------------------------
(* Specifications *)

\* rangeConstraint.Admits on every range and version
InitRangeAdmits ==
    /\ a \in Ranges
    /\ b = Any
    /\ cg = <<>>
    /\ v \in Versions
    /\ op = "init"
    /\ res = Pending

NextAdmits == AdmitsStep

SpecRangeAdmits == InitRangeAdmits /\ [][NextAdmits]_vars

\* unionConstraint.Admits on every union and version
InitUnionAdmits ==
    /\ a \in Unions
    /\ b = Any
    /\ cg = <<>>
    /\ v \in Versions
    /\ op = "init"
    /\ res = Pending

SpecUnionAdmits == InitUnionAdmits /\ [][NextAdmits]_vars

\* rangeConstraint.Intersect on every pair of ranges
InitRangeIntersect ==
    /\ a \in IntersectRanges
    /\ b \in IntersectRanges
    /\ cg = <<>>
    /\ v = 1
    /\ op = "init"
    /\ res = Pending

NextIntersect == IntersectStep

SpecRangeIntersect == InitRangeIntersect /\ [][NextIntersect]_vars

\* Intersect on every pair of constraints
InitIntersect ==
    /\ a \in Constraints
    /\ b \in Constraints
    /\ cg = <<>>
    /\ v = 1
    /\ op = "init"
    /\ res = Pending

SpecIntersect == InitIntersect /\ [][NextIntersect]_vars

\* unionConstraint.Intersect on unions of bounded ranges
InitUnionIntersect ==
    /\ a \in RangeUnions
    /\ b \in RangeUnions \cup BoundedRanges
    /\ cg = <<>>
    /\ v = 1
    /\ op = "init"
    /\ res = Pending

SpecUnionIntersect == InitUnionIntersect /\ [][NextIntersect]_vars

\* Intersection on every argument list
InitIntersection ==
    /\ a = Any
    /\ b = Any
    /\ cg \in SeqsUpTo(Members, MaxArgs)
    /\ v = 1
    /\ op = "init"
    /\ res = Pending

NextIntersection == IntersectionStep

SpecIntersection == InitIntersection /\ [][NextIntersection]_vars

\* IsNone and IsAny on every constraint
InitPredicates ==
    /\ a \in Constraints
    /\ b = Any
    /\ cg = <<>>
    /\ v = 1
    /\ op = "init"
    /\ res = Pending

NextPredicates == IsNoneStep \/ IsAnyStep

SpecPredicates == InitPredicates /\ [][NextPredicates]_vars

-----------------------------------------------------------------------------
(* What the claims speak of, stated on the operands alone. *)

LowerOK(r, x) == r.min = Nil \/ x > r.min \/ (x = r.min /\ r.includeMin)

UpperOK(r, x) == r.max = Nil \/ x < r.max \/ (x = r.max /\ r.includeMax)

Excluded(r, x) == \E i \in 1..Len(r.excl) : r.excl[i] = x

InRange(r, x) == LowerOK(r, x) /\ UpperOK(r, x) /\ ~Excluded(r, x)

BothRanges == op = "Intersect" /\ a.k = "range" /\ b.k = "range"

\* the greater of the present lower bounds, Nil when neither is present
MergedMin(r1, r2) ==
    IF r1.min = Nil THEN r2.min
    ELSE IF r2.min = Nil THEN r1.min
    ELSE IF r1.min > r2.min THEN r1.min ELSE r2.min

\* the lesser of the present upper bounds, Nil when neither is present
MergedMax(r1, r2) ==
    IF r1.max = Nil THEN r2.max
    ELSE IF r2.max = Nil THEN r1.max
    ELSE IF r1.max < r2.max THEN r1.max ELSE r2.max

\* inclusive unless an operand carrying the merged bound is exclusive
MergedIncludeMin(r1, r2) ==
    /\ (r1.min = MergedMin(r1, r2) => r1.includeMin)
    /\ (r2.min = MergedMin(r1, r2) => r2.includeMin)

MergedIncludeMax(r1, r2) ==
    /\ (r1.max = MergedMax(r1, r2) => r1.includeMax)
    /\ (r2.max = MergedMax(r1, r2) => r2.includeMax)

BothPresent(r1, r2) == MergedMin(r1, r2) # Nil /\ MergedMax(r1, r2) # Nil

\* Admits on the result of a call succeeds; a call that did not return has
\* no result to admit anything
AdmitsOK(c, x) == c.k # "panic" /\ Admits(c, x) = NoErr

-----------------------------------------------------------------------------
(* Claims *)

\* C1: rangeConstraint.Admits(v) returns no error exactly when v satisfies
\* the lower bound (absent, or v > min, or v = min and inclusive), satisfies
\* the upper bound likewise, and equals no excluded version; otherwise it
\* returns an error.
C1_RangeAdmits ==
    (op = "Admits" /\ a.k = "range") => ((res = NoErr) <=> InRange(a, v))

\* a version at an inclusive lower bound of a range with an upper bound and
\* an exclusion is admitted
C1_Witness ==
    /\ op = "Admits" /\ a.k = "range"
    /\ a.min = v /\ a.includeMin /\ a.max # Nil /\ Len(a.excl) > 0
    /\ res = NoErr

\* C3: when both merged bounds of a range intersection are present, equal
\* bounds give Exact(lower) if both are inclusive and None otherwise, and a
\* lower bound above the upper bound gives None.
C3_Collapse ==
    (BothRanges /\ BothPresent(a, b)) =>
        /\ MergedMin(a, b) = MergedMax(a, b) =>
             res = IF MergedIncludeMin(a, b) /\ MergedIncludeMax(a, b)
                   THEN Exact(MergedMin(a, b)) ELSE None
        /\ MergedMin(a, b) > MergedMax(a, b) => res = None

\* [x, y] intersected with [y, z], x < y < z, all inclusive, gave Exact(y)
C3_Witness ==
    /\ BothRanges
    /\ a.min # Nil /\ a.min < a.max /\ a.max = b.min /\ b.min < b.max
    /\ a.includeMin /\ a.includeMax /\ b.includeMin /\ b.includeMax
    /\ res = Exact(a.max)

\* C2: the result of a range intersection excludes every version excluded
\* by either operand, and admits every version that is inside both operands'
\* bounds and excluded by neither.
C2_ExclusionsKept ==
    (BothRanges /\ res.k # "panic") =>
        \A x \in Versions :
            /\ (Excluded(a, x) \/ Excluded(b, x)) => ~AdmitsOK(res, x)
            /\ (InRange(a, x) /\ InRange(b, x)) => AdmitsOK(res, x)

\* C4: a range intersection returns for every pair of ranges, absent bounds
\* included, and when the merged bounds do not collapse the result is the
\* range with the greater lower bound and the lesser upper bound, an equal
\* bound taking the exclusive flag if either operand's is exclusive.
C4_MergedRange ==
    BothRanges =>
        /\ res.k # "panic"
        /\ ~(BothPresent(a, b) /\ MergedMin(a, b) >= MergedMax(a, b)) =>
             /\ res.k = "range"
             /\ res.min = MergedMin(a, b)
             /\ res.max = MergedMax(a, b)
             /\ res.min # Nil => (res.includeMin <=> MergedIncludeMin(a, b))
             /\ res.max # Nil => (res.includeMax <=> MergedIncludeMax(a, b))

\* C5: a range or a union intersected with a version gives that version if
\* the receiver admits it, and None if it does not.
C5_IntersectExact ==
    (op = "Intersect" /\ a.k \in {"range", "union"} /\ b.k = "version") =>
        res = IF Admits(a, b.v) = NoErr THEN b ELSE None

\* C6: intersection is commutative in what it admits: A.Intersect(B) and
\* B.Intersect(A) admit the same versions.
C6_Commutative ==
    op = "Intersect" =>
        \A x \in Versions : AdmitsOK(res, x) <=> AdmitsOK(Intersect(b, a), x)

\* C7: Intersection of two or more constraints admits a version exactly
\* when every one of them admits it.
C7_IntersectionAdmits ==
    (op = "Intersection" /\ Len(cg) >= 2) =>
        \A x \in Versions :
            AdmitsOK(res, x) <=> \A i \in 1..Len(cg) : Admits(cg[i], x) = NoErr

\* the pairwise intersections of the members of us with those of os that
\* are not None, in the order of the loop
RECURSIVE Survivors(_, _, _, _)
Survivors(us, os, i, j) ==
    IF i > Len(us) THEN <<>>
    ELSE IF j > Len(os) THEN Survivors(us, os, i + 1, 1)
    ELSE LET r == Intersect(us[i], os[j])
         IN  IF r = None THEN Survivors(us, os, i, j + 1)
             ELSE <<r>> \o Survivors(us, os, i, j + 1)

\* the constraint made of exactly these constraints
MadeOf(cs) ==
    IF Len(cs) = 0 THEN None
    ELSE IF Len(cs) = 1 THEN cs[1]
    ELSE unionConstraint(cs)

\* C8: a union intersected with a union or a range returns, without
\* aborting, the constraint made of exactly the pairwise intersections of
\* their members that are not None, however many there are.
C8_CrossProduct ==
    (op = "Intersect" /\ a.k = "union" /\ b.k \in {"union", "range"}) =>
        /\ res.k # "panic"
        /\ res = MadeOf(Survivors(a.cs, IF b.k = "union" THEN b.cs ELSE <<b>>, 1, 1))

\* C9: a union of any number of members, zero included, admits a version
\* exactly when one of its members does; when none does it returns an error,
\* that of the last member tried.
C9_UnionAdmits ==
    (op = "Admits" /\ a.k = "union") =>
        LET some == \E i \in 1..Len(a.cs) : Admits(a.cs[i], v) = NoErr
        IN  /\ (res = NoErr) <=> some
            /\ (~some /\ Len(a.cs) > 0) => res = Admits(a.cs[Len(a.cs)], v)

\* C10: IsAny holds of the Any constraint alone, IsNone of the None
\* constraint alone, and no constraint satisfies both.
C10_Predicates ==
    /\ op = "IsAny" => (res.val <=> a.k = "any")
    /\ op = "IsNone" => (res.val <=> a.k = "none")
    /\ op \in {"IsAny", "IsNone"} => ~(IsAny(a) /\ IsNone(a))

====
